---- MODULE Spec2Model ----
(***************************************************************************)
(* Mini City 3D (MiniGames-Rambu-Lalulintas): the player controls, the     *)
(* day/night clock and the HUD clock of the game, as a state machine.      *)
(*                                                                         *)
(* Numbers.  The program computes in IEEE doubles; the model computes in   *)
(* fixed point:                                                            *)
(*   time      in units of 25 ms            (Hz units per second)          *)
(*   phase     in units of 10^-7 day        (One = phase 1.0)              *)
(*   length    in units of 1/100 world unit (PosScale per world unit)      *)
(*   velocity  in units of 1/100 world unit per second                     *)
(* A product that is not a whole number of units is rounded toward zero.   *)
(***************************************************************************)
EXTENDS Integers, Sequences, FiniteSets, TLC

VARIABLES
    \* ---- js/core/controls.js
    moveForward, moveBackward, moveLeft, moveRight, sprint,
    velocity,          \* [x, y, z]
    position,          \* controls.getObject().position: [x, y, z]
    yaw,               \* camera orientation about the Y axis, an index of Yaws
    matrixYaw,         \* the orientation in camera.matrix, as of the last render
    isLocked,          \* controls.isLocked
    dayNightAuto, timeOfDay,
    \* ---- js/data/buildingData.js
    sizeDraw,          \* the random terms of the generated buildings: <<rw, rd>>
    \* ---- js/ui/popup.js, js/ui/hud.js
    isPopupOpen,
    clockText,         \* textContent of #gameClock, a sequence of characters
    \* ---- js/world/lighting.js
    sky,               \* sunMesh and moonMesh: [sunY, moonY, sunVisible, moonVisible]
    trafficLights,     \* sequence of [timer, state, red, yellow, green]
    \* ---- js/objects/Bird.js
    bird,              \* sequence of the birds constructed: [x, y, z, dx, dz, speed]
    \* ---- js/world/buildings.js
    treeLoop,          \* the running addRandomTreesSmart call, or [pc |-> "none"]
    \* ---- history (not program state)
    last,              \* the last operation on the clock: [seq, op, code, delta]
    prevAuto,          \* dayNightAuto before that operation
    ticks,             \* number of per-frame updates so far
    events,            \* number of input events so far
    heldAt,            \* the last Digit key pressed while no KeyN followed, else "none"
    dayStart,          \* phase when auto-advance was last switched on
    dayElapsed,        \* time ticked since then with auto-advance on
    moveTrace,         \* branches taken by the last updateMovement
    birdTrace,         \* the last Bird.update: [delta, old, rawX, rawZ]
    frameLog,          \* the updates of the last frame, in order: [op, delta]
    \* ---- module-level handles (js/core/controls.js, js/world/lighting.js)
    handles,           \* [controls, hemiLight, sunLight]: TRUE once assigned
    \* ---- js/ui/popup.js
    currentSignId,     \* the sign whose popup is open, or "null"
    signScores,        \* sign id -> points of its last submission (absent until then)
    signStates,        \* sign id -> mastered
    quizArea,          \* what the popup's quiz area shows: [view, id, answers]
    hud,               \* what updateHud and updateMissionBox last wrote
    \* ---- history (not program state)
    frameExit,         \* how the last guarded per-frame update ended, and which
                       \* updates have returned at their guard: [op, early, threw, returned]
    lockTrace          \* the last pointer or popup step: [seq, op, requested]

keyVars   == <<moveForward, moveBackward, moveLeft, moveRight, sprint>>
bodyVars  == <<velocity, position>>
lookVars  == <<yaw, matrixYaw>>
lockVars  == <<isLocked, isPopupOpen>>
clockVars == <<dayNightAuto, timeOfDay>>
histClock == <<heldAt, dayStart, dayElapsed>>
sceneVars == <<trafficLights, bird, treeLoop, birdTrace, frameLog>>
quizVars  == <<signScores, signStates, quizArea, hud>>
uiVars    == <<handles, currentSignId, quizVars, lockTrace>>
vars == <<moveForward, moveBackward, moveLeft, moveRight, sprint, velocity,
          position, yaw, matrixYaw, isLocked, dayNightAuto, timeOfDay, sizeDraw,
          isPopupOpen, clockText, last, prevAuto, ticks, events, heldAt, dayStart,
          dayElapsed, moveTrace, sky, trafficLights, bird, treeLoop, birdTrace,
          frameLog, handles, currentSignId, signScores, signStates, quizArea, hud,
          frameExit, lockTrace>>

----------------------------------------------------------------------------
(* Units *)
Hz       == 1000 \div 25      \* time units per second
One      == 10^7              \* phase 1.0
PosScale == 10^2              \* length units per world unit

Abs(n) == IF n < 0 THEN -n ELSE n
Sign(n) == IF n < 0 THEN -1 ELSE IF n > 0 THEN 1 ELSE 0
\* a / b rounded toward zero (b > 0)
Quot(a, b) == Sign(a) * (Abs(a) \div b)

----------------------------------------------------------------------------
(* Bounds of the model *)
MaxTicks == 2        \* frames of a movement run
MaxEvents == 3       \* input events of a movement run
MaxClockTicks == 3   \* frames of a clock run
MaxLookTicks == 3    \* frames of a pointer run
MaxLookEvents == 4   \* input events of a pointer run
LookSigns == {"parking"}   \* the sign in reach during a pointer run

----------------------------------------------------------------------------
(* Inputs *)
MoveCodes  == {"KeyW", "KeyA", "KeyS", "KeyD", "ShiftLeft"}
DigitCodes == {"Digit1", "Digit2", "Digit3", "Digit4"}

\* the keys of the clock runs
ClockCodes == DigitCodes \cup {"KeyN", "KeyW", "ShiftRight", "Space"}

\* frame times of the clock runs, in time units: 0, 1 s, 6 min, 12 min
ClockDeltas == {0, Hz, 360 * Hz, 720 * Hz}

----------------------------------------------------------------------------
(* js/core/controls.js: onKeyDown, onKeyUp *)

\* a variant in which Digit3 jumps to 0.5 instead of 0.48
TimeAfterKeyDownHalf(code, t) ==
    CASE code = "Digit1" -> (5 * One) \div 100
      [] code = "Digit2" -> (25 * One) \div 100
      [] code = "Digit3" -> (50 * One) \div 100
      [] code = "Digit4" -> (75 * One) \div 100
      [] OTHER -> t

\* a variant in which KeyN switches auto-advance on instead of toggling it
AutoAfterKeyDownOn(code, auto) ==
    IF code \in {"Digit1", "Digit2", "Digit3", "Digit4"} THEN FALSE
    ELSE IF code = "KeyN" THEN TRUE
    ELSE auto

\* case "Digit1" .. "Digit4": timeOfDay = 0.05 | 0.25 | 0.48 | 0.75
TimeAfterKeyDown(code, t) ==
    CASE code = "Digit1" -> (5 * One) \div 100
      [] code = "Digit2" -> (25 * One) \div 100
      [] code = "Digit3" -> (48 * One) \div 100
      [] code = "Digit4" -> (75 * One) \div 100
      [] OTHER -> t

AutoAfterKeyDown(code, auto) ==
    IF code \in DigitCodes THEN FALSE
    ELSE IF code = "KeyN" THEN ~auto
    ELSE auto

FlagAfterKeyDown(codes, code, flag) == IF code \in codes THEN TRUE ELSE flag
FlagAfterKeyUp(codes, code, flag) == IF code \in codes THEN FALSE ELSE flag

OnKeyDown(code) ==
    /\ moveForward'  = FlagAfterKeyDown({"KeyW"}, code, moveForward)
    /\ moveLeft'     = FlagAfterKeyDown({"KeyA"}, code, moveLeft)
    /\ moveBackward' = FlagAfterKeyDown({"KeyS"}, code, moveBackward)
    /\ moveRight'    = FlagAfterKeyDown({"KeyD"}, code, moveRight)
    /\ sprint'       = FlagAfterKeyDown({"ShiftLeft", "ShiftRight"}, code, sprint)
    /\ dayNightAuto' = AutoAfterKeyDown(code, dayNightAuto)
    /\ timeOfDay'    = TimeAfterKeyDown(code, timeOfDay)
    /\ last' = IF code \in DigitCodes \cup {"KeyN"}
               THEN [seq |-> 1 - last.seq, op |-> "keydown", code |-> code,
                     delta |-> 0]
               ELSE last
    /\ prevAuto' = IF code \in DigitCodes \cup {"KeyN"} THEN dayNightAuto ELSE prevAuto
    /\ heldAt' = IF code \in DigitCodes THEN code
                 ELSE IF code = "KeyN" THEN "none" ELSE heldAt
    /\ dayStart' = IF dayNightAuto' /\ ~dayNightAuto THEN timeOfDay'
                   ELSE IF dayNightAuto' THEN dayStart ELSE -1
    /\ dayElapsed' = IF dayNightAuto' /\ dayNightAuto THEN dayElapsed ELSE 0
    /\ UNCHANGED <<bodyVars, lookVars, lockVars, uiVars, frameExit, sizeDraw, sky, sceneVars, clockText,
                   moveTrace>>

OnKeyUp(code) ==
    /\ moveForward'  = FlagAfterKeyUp({"KeyW"}, code, moveForward)
    /\ moveLeft'     = FlagAfterKeyUp({"KeyA"}, code, moveLeft)
    /\ moveBackward' = FlagAfterKeyUp({"KeyS"}, code, moveBackward)
    /\ moveRight'    = FlagAfterKeyUp({"KeyD"}, code, moveRight)
    /\ sprint'       = FlagAfterKeyUp({"ShiftLeft", "ShiftRight"}, code, sprint)
    /\ UNCHANGED <<bodyVars, lookVars, lockVars, uiVars, frameExit, clockVars, sizeDraw, sky, sceneVars, clockText,
                   histClock, moveTrace, last, prevAuto>>

----------------------------------------------------------------------------
(* js/world/lighting.js: updateDayNight, the clock part *)

\* const cycleSpeed = 0.001388 (phase per second), in phase units per second
cycleSpeed == 13880

\* a variant without the wrap
PhaseAfterNoWrap(t, auto, delta) ==
    IF auto THEN t + (delta * cycleSpeed) \div Hz ELSE t

\* timeOfDay = (timeOfDay + delta * cycleSpeed) % 1, when getDayNightAuto()
PhaseAfter(t, auto, delta) ==
    IF auto THEN (t + (delta * cycleSpeed) \div Hz) % One ELSE t

\* Math.sin(x) for x = 2 * pi * r / One in [0, pi / 2], in units of 10^-4:
\* the series x - x^3/3! + x^5/5! - x^7/7! + x^9/9! (within 2 * 10^-4 of the sine)
SinQuarter(r) ==
    LET x  == ((r \div 100) * 62832) \div 100000
        x2 == (x * x) \div 10000
        t3 == ((x2 * x) \div 10000) \div 6
        t5 == ((t3 * x2) \div 10000) \div 20
        t7 == ((t5 * x2) \div 10000) \div 42
        t9 == ((t7 * x2) \div 10000) \div 72
        s  == x - t3 + t5 - t7 + t9
    IN  IF s > 10000 THEN 10000 ELSE s       \* Math.sin never exceeds 1

\* Math.sin(timeOfDay * Math.PI * 2), in units of 10^-4
SinTurn(t) ==
    LET q == t % One
        h == q % (One \div 2)
        r == IF h <= One \div 4 THEN h ELSE One \div 2 - h
    IN  IF q < One \div 2 THEN SinQuarter(r) ELSE -SinQuarter(r)

orbitRadius == 150

\* const sunY = Math.sin(angle) * orbitRadius, in length units
SunY(t) == Quot(SinTurn(t) * orbitRadius * PosScale, 10000)

\* dayFactor = Math.max(0, sunHeight), in units of 10^-4
DayFactor(t) == IF SinTurn(t) > 0 THEN SinTurn(t) ELSE 0

\* nightFactor = 1 - dayFactor
NightFactor(t) == 10000 - DayFactor(t)

\* new THREE.Color(0xaee6ff), (0xffc38b), (0x020924): the channels of the hex
dayColor    == [r |-> 174, g |-> 230, b |-> 255]
sunsetColor == [r |-> 255, g |-> 195, b |-> 139]
nightColor  == [r |-> 2, g |-> 9, b |-> 36]

\* Color.lerpColors(c1, c2, alpha): c1 + (c2 - c1) * alpha on every channel;
\* alpha and the result in units of 10^-4
LerpColors(c1, c2, alpha) ==
    [r |-> c1.r * 10000 + (c2.r - c1.r) * alpha,
     g |-> c1.g * 10000 + (c2.g - c1.g) * alpha,
     b |-> c1.b * 10000 + (c2.b - c1.b) * alpha]

\* the alpha handed to lerpColors: Math.max(0, Math.min(1, t * 0.4)) with
\* t = 1 - (dayFactor - 0.3) / 0.7 above 0.3, t = 1 - dayFactor / 0.3 otherwise
BlendFactor(df) ==
    IF df > 3000
    THEN LET t == 10000 - Quot((df - 3000) * 10000, 7000)
             a == Quot(t * 4, 10)
         IN  IF a < 0 THEN 0 ELSE IF a > 10000 THEN 10000 ELSE a
    ELSE 10000 - Quot(df * 10000, 3000)

\* skyColor, which becomes scene.background and the fog colour
SkyColor(df) ==
    IF df > 3000
    THEN LerpColors(dayColor, sunsetColor, BlendFactor(df))
    ELSE LerpColors(sunsetColor, nightColor, BlendFactor(df))

\* a variant without the floor at zero
LampIntensityUnclamped(nf) == 3 * (nf - 2000)

\* intensity = 3.0 * Math.max(0, nightFactor - 0.2)
LampIntensity(nf) == 3 * (IF nf - 2000 > 0 THEN nf - 2000 ELSE 0)

\* the street lamps createAllStreetLamps() has made
LampCount == 208

\* what updateDayNight leaves of the atmosphere: the light intensities, the
\* sky colour and the lamps, with the factors they were computed from
AtmosphereAt(t) ==
    [drawn |-> TRUE,
     dayFactor |-> DayFactor(t), nightFactor |-> NightFactor(t),
     sunIntensity |-> Quot(13 * DayFactor(t), 10),
     hemiIntensity |-> 4000 + Quot(6 * DayFactor(t), 10),
     blend |-> BlendFactor(DayFactor(t)),
     skyColor |-> SkyColor(DayFactor(t)),
     lamps |-> [i \in 1..LampCount |-> LampIntensity(NightFactor(t))]]

\* a variant in which the moon hides as soon as the sun shows
SkyAtExclusive(t) ==
    [sunY |-> SunY(t), moonY |-> -SunY(t),
     sunVisible |-> SunY(t) > -10 * PosScale,
     moonVisible |-> ~(SunY(t) > -10 * PosScale)] @@ AtmosphereAt(t)

\* sunMesh.position.set(sunX, sunY, sunZ); sunMesh.visible = sunY > -10;
\* moonMesh.position.set(-sunX, -sunY, -sunZ); moonMesh.visible = -sunY > -10
SkyAt(t) ==
    [sunY |-> SunY(t), moonY |-> -SunY(t),
     sunVisible |-> SunY(t) > -10 * PosScale,
     moonVisible |-> -SunY(t) > -10 * PosScale] @@ AtmosphereAt(t)

\* the exit of a per-frame update after the exits before it
ExitAfter(prev, op, early, threw) ==
    [op |-> op, early |-> early, threw |-> threw,
     returned |-> IF early THEN prev.returned \cup {op} ELSE prev.returned]

\* a variant that advances whether or not auto-advance is on
UpdateDayNightStepAlways(delta) ==
    /\ timeOfDay' = (timeOfDay + (delta * cycleSpeed) \div Hz) % One
    /\ sky' = SkyAt(timeOfDay')
    /\ frameExit' = ExitAfter(frameExit, "updateDayNight", FALSE, FALSE)
    /\ UNCHANGED dayNightAuto

\* if (!hemiLight || !sunLight) return;
LightsReady(h) == h.hemiLight /\ h.sunLight

\* a variant without the guard: the phase advances, then sunLight.position of
\* an undefined sunLight is a TypeError
UpdateDayNightStepUnguarded(delta) ==
    /\ timeOfDay' = PhaseAfter(timeOfDay, dayNightAuto, delta)
    /\ sky' = IF LightsReady(handles) THEN SkyAt(timeOfDay') ELSE sky
    /\ frameExit' = ExitAfter(frameExit, "updateDayNight", FALSE, ~LightsReady(handles))
    /\ UNCHANGED dayNightAuto

UpdateDayNightStep(delta) ==
    /\ timeOfDay' = IF LightsReady(handles)
                    THEN PhaseAfter(timeOfDay, dayNightAuto, delta) ELSE timeOfDay
    /\ sky' = IF LightsReady(handles) THEN SkyAt(timeOfDay') ELSE sky
    /\ frameExit' = ExitAfter(frameExit, "updateDayNight", ~LightsReady(handles), FALSE)
    /\ UNCHANGED dayNightAuto

UpdateDayNight(delta) ==
    /\ UpdateDayNightStep(delta)
    /\ last' = [seq |-> 1 - last.seq, op |-> "updateDayNight", code |-> "",
                delta |-> delta]
    /\ prevAuto' = dayNightAuto
    /\ dayElapsed' = IF dayNightAuto /\ LightsReady(handles)
                    THEN dayElapsed + delta ELSE dayElapsed
    /\ UNCHANGED <<keyVars, bodyVars, lookVars, lockVars, uiVars, sizeDraw, sceneVars,
                   clockText, heldAt, dayStart, moveTrace>>

----------------------------------------------------------------------------
(* js/world/lighting.js: updateTrafficLights *)

redTime == 4
greenTime == 4
yellowTime == 2

\* state: 0 = RED, 1 = GREEN, 2 = YELLOW; the duration of a state, in time units
LightDuration(state) ==
    CASE state = 0 -> redTime * Hz
      [] state = 1 -> greenTime * Hz
      [] state = 2 -> yellowTime * Hz

\* a variant that runs the cycle backwards
NextLightStateBack(state) ==
    CASE state = 0 -> 2
      [] state = 1 -> 0
      [] state = 2 -> 1

\* light.state = 1 | 2 | 0 in the branches for state 0 | 1 | 2
NextLightState(state) ==
    CASE state = 0 -> 1
      [] state = 1 -> 2
      [] state = 2 -> 0

\* a variant that switches as soon as the duration is reached
ExpiredAtLeast(state, timer) == timer >= LightDuration(state)

\* light.state === s && light.timer > sTime
Expired(state, timer) == timer > LightDuration(state)

\* emissive.setHex(0x000000) on all three lamps, then the lamp of the state:
\* red 0xff0000, green 0x00ff00, yellow 0xffcc00
EmissiveOf(state) ==
    [red    |-> IF state = 0 THEN 16711680 ELSE 0,
     green  |-> IF state = 1 THEN 65280 ELSE 0,
     yellow |-> IF state = 2 THEN 16763904 ELSE 0]

\* a variant that carries the time beyond the duration into the next state
LightAfterCarry(light, delta) ==
    LET timer == light.timer + delta
        state == IF Expired(light.state, timer) THEN NextLightState(light.state)
                 ELSE light.state
    IN  [timer  |-> IF Expired(light.state, timer)
                    THEN timer - LightDuration(light.state) ELSE timer,
         state  |-> state,
         red    |-> EmissiveOf(state).red,
         yellow |-> EmissiveOf(state).yellow,
         green  |-> EmissiveOf(state).green]

\* the body of trafficLights.forEach
LightAfter(light, delta) ==
    LET timer == light.timer + delta
        state == IF Expired(light.state, timer) THEN NextLightState(light.state)
                 ELSE light.state
    IN  [timer  |-> IF Expired(light.state, timer) THEN 0 ELSE timer,
         state  |-> state,
         red    |-> EmissiveOf(state).red,
         yellow |-> EmissiveOf(state).yellow,
         green  |-> EmissiveOf(state).green]

\* a variant that updates the first light only
UpdateTrafficLightsStepFirst(delta) ==
    trafficLights' = [trafficLights EXCEPT ![1] = LightAfter(@, delta)]

UpdateTrafficLightsStep(delta) ==
    trafficLights' = [i \in 1..Len(trafficLights) |->
                        LightAfter(trafficLights[i], delta)]

UpdateTrafficLights(delta) ==
    /\ UpdateTrafficLightsStep(delta)
    /\ last' = [seq |-> 1 - last.seq, op |-> "updateTrafficLights", code |-> "",
                delta |-> delta]
    /\ prevAuto' = dayNightAuto
    /\ UNCHANGED <<keyVars, bodyVars, lookVars, lockVars, uiVars, frameExit, clockVars, sizeDraw, sky,
                   bird, treeLoop, birdTrace, frameLog, clockText, histClock,
                   moveTrace>>

----------------------------------------------------------------------------
(* js/ui/hud.js (in src/js/ui/popup.js): updateGameClock *)

DigitChars == <<"0", "1", "2", "3", "4", "5", "6", "7", "8", "9">>

\* Number.prototype.toString() of a natural number
RECURSIVE NumberToString(_)
NumberToString(n) ==
    IF n < 10 THEN <<DigitChars[n + 1]>>
    ELSE NumberToString(n \div 10) \o <<DigitChars[(n % 10) + 1]>>

\* String.prototype.padStart(len, ch)
RECURSIVE PadStart(_, _, _)
PadStart(str, len, ch) ==
    IF Len(str) >= len THEN str ELSE PadStart(<<ch>> \o str, len, ch)

\* a variant without the wrap at 24 hours
TotalHoursNoWrap(timeVal) == 6 * One + timeVal * 24

\* let totalHours = 6 + (timeVal * 24); if (totalHours >= 24) totalHours -= 24;
\* in units of 10^-7 hour
TotalHours(timeVal) ==
    LET th == 6 * One + timeVal * 24
    IN  IF th >= 24 * One THEN th - 24 * One ELSE th

ClockHours(timeVal) == TotalHours(timeVal) \div One
ClockMinutes(timeVal) ==
    ((TotalHours(timeVal) - ClockHours(timeVal) * One) * 60) \div One

ClockString(timeVal) ==
    PadStart(NumberToString(ClockHours(timeVal)), 2, "0") \o <<":">>
        \o PadStart(NumberToString(ClockMinutes(timeVal)), 2, "0")

UpdateGameClockStep == clockText' = ClockString(timeOfDay)

UpdateGameClock ==
    /\ UpdateGameClockStep
    /\ last' = [seq |-> 1 - last.seq, op |-> "updateGameClock", code |-> "",
                delta |-> 0]
    /\ prevAuto' = dayNightAuto
    /\ UNCHANGED <<keyVars, bodyVars, lookVars, lockVars, uiVars, frameExit, clockVars, sizeDraw,
                   sky, sceneVars, histClock, moveTrace>>

----------------------------------------------------------------------------
(* js/data/buildingData.js (in src/js/data/quizData.js): the building grid *)

\* a variant with no cell reserved
reservedLocationsNone == {}

reservedLocations == {<<0, -40>>, <<40, -40>>}

\* the seven skyscrapers, all 14 wide and 14 deep
skyscrapers ==
    << <<-80, 80>>, <<-40, 80>>, <<-80, 40>>, <<80, -80>>, <<40, -80>>,
       <<80, 80>>, <<-40, -80>> >>

\* a variant that checks the reserved list only
isOccupiedReservedOnly(x, z) == <<x, z>> \in reservedLocations

isOccupied(x, z) ==
    \/ <<x, z>> \in reservedLocations
    \/ \E i \in 1..Len(skyscrapers) : skyscrapers[i] = <<x, z>>

gridRange == <<-120, -80, -40, 0, 40, 80, 120>>

\* gridRange.forEach(x => gridRange.forEach(z => ...)): the cells in visiting order
GridCells ==
    [i \in 1..(Len(gridRange) * Len(gridRange)) |->
        <<gridRange[((i - 1) \div Len(gridRange)) + 1],
          gridRange[((i - 1) % Len(gridRange)) + 1]>>]

\* width: 12 + Math.random() * 2, depth: 12 + Math.random() * 2; rw, rd are the
\* two random terms, in length units (0 <= r < 2 * PosScale)
generatedBuildings(rw, rd) ==
    LET free == SelectSeq(GridCells, LAMBDA c : ~isOccupied(c[1], c[2]))
    IN  [i \in 1..Len(free) |->
            [x |-> free[i][1] * PosScale, z |-> free[i][2] * PosScale,
             width |-> 12 * PosScale + rw, depth |-> 12 * PosScale + rd]]

\* export const mediumBuildings = generatedBuildings
mediumBuildings(rw, rd) == generatedBuildings(rw, rd)

(* js/world/buildings.js: createBuildings, initWorld: the collider registry *)
InitWorld(rw, rd) ==
    generatedBuildings(rw, rd)
    \o [i \in 1..Len(skyscrapers) |->
            [x |-> skyscrapers[i][1] * PosScale, z |-> skyscrapers[i][2] * PosScale,
             width |-> 14 * PosScale, depth |-> 14 * PosScale]]
    \o << [x |-> 0, z |-> -40 * PosScale, width |-> 20 * PosScale,
           depth |-> 15 * PosScale] >>

\* the random terms drawn for the generated buildings (every building alike)
SizeDraws == << <<0, 0>>, <<2 * PosScale - 1, (3 * PosScale) \div 2>> >>

Registry == << InitWorld(SizeDraws[1][1], SizeDraws[1][2]),
               InitWorld(SizeDraws[2][1], SizeDraws[2][2]) >>

\* export const buildingColliders = [], as filled by initWorld(); sizeDraw is
\* <<>> until initWorld() has run
buildingColliders ==
    IF sizeDraw = <<>> THEN <<>>
    ELSE IF \E i \in 1..Len(SizeDraws) : SizeDraws[i] = sizeDraw
    THEN Registry[CHOOSE i \in 1..Len(SizeDraws) : SizeDraws[i] = sizeDraw]
    ELSE InitWorld(sizeDraw[1], sizeDraw[2])

\* initWorld(), with the random terms the building data was generated with
CreateWorld(rw, rd) ==
    /\ sizeDraw = <<>>
    /\ sizeDraw' = <<rw, rd>>
    /\ UNCHANGED <<keyVars, bodyVars, lookVars, lockVars, uiVars, frameExit, clockVars, sky, sceneVars,
                   clockText, histClock, moveTrace, last, prevAuto>>

roadWidth == 12
gridSpacing == 40
margin == 5

\* the road lines: for (let i = -100; i <= 100; i += gridSpacing)
RoadLines == {-100 + k * gridSpacing : k \in 0..(200 \div gridSpacing)}

\* isTooCloseToRoad(x, z), x and z in length units; the comparisons doubled
isTooCloseToRoad(x, z) ==
    LET near(d) == 2 * Abs(d) < (roadWidth + 2 * margin) * PosScale
    IN  \/ near(z)
        \/ near(x)
        \/ \E i \in RoadLines :
              \/ near(x - i * PosScale) /\ Abs(z) < 150 * PosScale
              \/ near(z - i * PosScale) /\ Abs(x) < 150 * PosScale

----------------------------------------------------------------------------
(* js/core/controls.js: updateMovement, checkBuildingCollisions *)

limit == 130
playerRadius == 1

\* camera orientations (rotation about Y): cos and sin in fifths
Yaws == << [c |-> 5, s |-> 0], [c |-> 0, s |-> 5], [c |-> 3, s |-> 4] >>

\* frame times of the movement runs: 0, 50 ms, 100 ms, 1 s
MoveDeltas == {0, 2, 4, Hz}

\* buildingColliders.some(b => position.x > b.x - halfW && position.x < b.x + halfW
\*   && position.z > b.z - halfD && position.z < b.z + halfD),
\* with halfW = b.width / 2 + playerRadius; both sides doubled here
checkBuildingCollisions(pos, colliders) ==
    LET px == pos.x
        pz == pos.z
        r2 == 2 * playerRadius * PosScale
    IN  \E b \in {colliders[i] : i \in 1..Len(colliders)} :
            /\ 2 * (px - b.x) > -(b.width + r2)
            /\ 2 * (px - b.x) < b.width + r2
            /\ 2 * (pz - b.z) > -(b.depth + r2)
            /\ 2 * (pz - b.z) < b.depth + r2

\* a variant with twice the friction
FrictionDouble(v, delta) == v - Quot(v * 20 * delta, Hz)

\* velocity.x -= velocity.x * 10.0 * delta
Friction(v, delta) == v - Quot(v * 10 * delta, Hz)

Number(b) == IF b THEN 1 ELSE 0

\* direction.normalize(): components in units of 10^-4
Normalized(dx, dz) ==
    IF dx # 0 /\ dz # 0 THEN [x |-> dx * 7071, z |-> dz * 7071]
    ELSE [x |-> dx * 10000, z |-> dz * 10000]

\* velocity.z -= direction.z * speed * delta
Accelerate(v, pressed, dir, speed, delta) ==
    IF pressed THEN v - Quot(dir * ((speed * PosScale * delta) \div Hz), 10000)
    ELSE v

\* PointerLockControls.moveRight: along column 0 of camera.matrix, (cos, 0, -sin)
MoveRightBy(pos, dist, yw) ==
    [pos EXCEPT !.x = @ + Quot(Yaws[yw].c * dist, 5),
                !.z = @ - Quot(Yaws[yw].s * dist, 5)]

\* PointerLockControls.moveForward: along up x right = (-sin, 0, -cos)
MoveForwardBy(pos, dist, yw) ==
    [pos EXCEPT !.x = @ - Quot(Yaws[yw].s * dist, 5),
                !.z = @ - Quot(Yaws[yw].c * dist, 5)]

\* a variant that clamps at the upper boundary only
ClampCoordUpper(c) == IF c > limit * PosScale THEN limit * PosScale ELSE c

\* if (pos.x < -limit) pos.x = -limit; if (pos.x > limit) pos.x = limit
ClampCoord(c) ==
    IF c < -limit * PosScale THEN -limit * PosScale
    ELSE IF c > limit * PosScale THEN limit * PosScale
    ELSE c

\* ... velocity.x = 0 on either branch
ClampVelocity(c, v) ==
    IF c < -limit * PosScale \/ c > limit * PosScale THEN 0 ELSE v

\* the body of updateMovement: the new position and velocity and the branches taken
\* a variant that puts the player on the ground plane
PinHeightGround(p) == [p EXCEPT !.y = 0]

\* controls.getObject().position.y = 2
PinHeight(p) == [p EXCEPT !.y = 2 * PosScale]

MovementResult(pos, vel, fwd, back, left, right, spr, yw, lck, colliders, delta) ==
    LET dir    == Normalized(Number(right) - Number(left),
                             Number(fwd) - Number(back))
        speed  == IF spr THEN 200 ELSE 80
        vz1    == Accelerate(Friction(vel.z, delta), fwd \/ back, dir.z, speed, delta)
        vx1    == Accelerate(Friction(vel.x, delta), left \/ right, dir.x, speed, delta)
        distX  == Quot((-vx1) * delta, Hz)
        p1     == MoveRightBy(pos, distX, yw)
        hitX   == checkBuildingCollisions(p1, colliders)
        p2     == IF hitX THEN [p1 EXCEPT !.x = pos.x] ELSE p1
        vx2    == IF hitX THEN 0 ELSE vx1
        distZ  == Quot((-vz1) * delta, Hz)
        p3     == MoveForwardBy(p2, distZ, yw)
        hitZ   == checkBuildingCollisions(p3, colliders)
        p4     == IF hitZ THEN [p3 EXCEPT !.z = pos.z] ELSE p3
        vz2    == IF hitZ THEN 0 ELSE vz1
        p5     == PinHeight(p4)
    IN  [position |-> [x |-> ClampCoord(p4.x), y |-> p5.y,
                       z |-> ClampCoord(p4.z)],
         velocity |-> [x |-> ClampVelocity(p4.x, vx2), y |-> vel.y,
                       z |-> ClampVelocity(p4.z, vz2)],
         trace    |-> [delta |-> delta, idle |-> ~(fwd \/ back \/ left \/ right),
                       locked |-> lck, oldPos |-> pos, oldVel |-> vel,
                       distX |-> distX, distZ |-> distZ, hitX |-> hitX,
                       hitZ |-> hitZ, rawX |-> p4.x, rawZ |-> p4.z]]

\* if (!controls) return;
UpdateMovementStep(delta) ==
    /\ frameExit' = ExitAfter(frameExit, "updateMovement", ~handles.controls, FALSE)
    /\ IF ~handles.controls
       THEN UNCHANGED <<position, velocity, moveTrace>>
       ELSE LET r == MovementResult(position, velocity, moveForward, moveBackward,
                                    moveLeft, moveRight, sprint, matrixYaw, isLocked,
                                    buildingColliders, delta)
            IN  /\ position' = r.position
                /\ velocity' = r.velocity
                /\ moveTrace' = r.trace

\* the frame's updateMovement(delta); the render() that ends the frame brings
\* camera.matrix up to date with the camera's orientation
UpdateMovement(delta) ==
    /\ UpdateMovementStep(delta)
    /\ matrixYaw' = yaw
    /\ UNCHANGED <<keyVars, yaw, lockVars, uiVars, clockVars, sizeDraw, sky, sceneVars, clockText,
                   histClock, last, prevAuto>>

----------------------------------------------------------------------------
(* js/data/quizData.js; js/ui/popup.js: quiz, score and mission box              *)

SIGN_IDS == <<"parking", "schoolzone", "noparking", "speedlimit", "stop",
              "intersection", "noleft", "noright", "noovertake", "slippery">>

SignIds == {SIGN_IDS[i] : i \in 1..Len(SIGN_IDS)}

\* the index c of the right option of every question, four options each
quizData ==
    [parking      |-> <<1, 2, 0, 1, 2>>,
     schoolzone   |-> <<1, 2, 0, 1, 1>>,
     noparking    |-> <<1, 0, 1, 1, 1>>,
     speedlimit   |-> <<1, 1, 1, 1, 2>>,
     stop         |-> <<1, 2, 1, 0, 1>>,
     intersection |-> <<1, 0, 1, 1, 2>>,
     noleft       |-> <<1, 1, 0, 1, 2>>,
     noright      |-> <<1, 0, 2, 1, 1>>,
     noovertake   |-> <<2, 1, 0, 1, 2>>,
     slippery     |-> <<1, 2, 1, 2, 2>>]

RECURSIVE QuestionsUpTo(_)
QuestionsUpTo(n) ==
    IF n = 0 THEN 0 ELSE QuestionsUpTo(n - 1) + Len(quizData[SIGN_IDS[n]])

getTotalQuizQuestions == QuestionsUpTo(Len(SIGN_IDS))

\* signStates before any quiz: SIGN_IDS.forEach((id) => (signStates[id] = false))
NoneMastered == [id \in SignIds |-> FALSE]

\* signScores = {}
NoScores == [id \in {} |-> 0]

RECURSIVE TotalBenar(_, _)
TotalBenar(scores, n) ==
    IF n = 0 THEN 0
    ELSE TotalBenar(scores, n - 1)
         + (IF SIGN_IDS[n] \in DOMAIN scores THEN scores[SIGN_IDS[n]] ELSE 0)

\* updateHud(signScores); updateMissionBox(signStates)
HudOf(scores, states) ==
    LET completed == Cardinality({id \in SignIds : states[id]})
    IN  [total |-> TotalBenar(scores, Len(SIGN_IDS)),
         outOf |-> getTotalQuizQuestions * 2,
         completed |-> completed,
         allLearned |-> completed = Len(SIGN_IDS)]

\* quizArea.style.display = "none"
QuizHidden == [view |-> "none", id |-> "null", answers |-> <<>>]

\* if (val === item.c) correct++, val being -1 for a question left unanswered
CorrectCount(data, userAnswers) ==
    Cardinality({i \in 1..Len(data) : userAnswers[i] = data[i]})

\* the radios as the player may leave them: all right, the first question
\* unanswered, the last one wrong, nothing answered
AnswerSamples(id) ==
    LET key == quizData[id]
    IN  {key, [key EXCEPT ![1] = -1],
         [key EXCEPT ![Len(key)] = (key[Len(key)] + 1) % 4],
         [i \in 1..Len(key) |-> -1]}

\* a variant in which the last submission decides
MasteredLatest(states, id, correct, n) == [states EXCEPT ![id] = (correct = n)]

\* if (correct === data.length) signStates[id] = true
Mastered(states, id, correct, n) ==
    IF correct = n THEN [states EXCEPT ![id] = TRUE] ELSE states

----------------------------------------------------------------------------
(* Pointer lock: js/core/controls.js initControls (click listener),              *)
(* PointerLockControls (mouse look, Esc), js/main.js handleSceneClick,           *)
(* js/ui/popup.js openSignPopup, hidePopup                                       *)

Unmoved == UNCHANGED <<keyVars, bodyVars, clockVars, handles, frameExit, sizeDraw, sky,
                       sceneVars, clockText, histClock, moveTrace, last, prevAuto>>

\* the step's entry in the pointer history
Logged(op, requested) ==
    lockTrace' = [seq |-> 1 - lockTrace.seq, op |-> op, requested |-> requested]

\* a variant that asks for the lock whether or not a popup is open
BodyClickAlways ==
    /\ isLocked' = TRUE
    /\ Logged("click", ~isLocked)
    /\ UNCHANGED <<lookVars, isPopupOpen, currentSignId, quizVars>>
    /\ Unmoved

\* click on the page: controls.lock() unless a popup is open or the lock is held
BodyClick ==
    /\ isLocked' = IF isPopupOpen THEN isLocked ELSE TRUE
    /\ Logged("click", ~isPopupOpen /\ ~isLocked)
    /\ UNCHANGED <<lookVars, isPopupOpen, currentSignId, quizVars>>
    /\ Unmoved

\* the browser releases the pointer (Esc)
Escape ==
    /\ isLocked
    /\ isLocked' = FALSE
    /\ Logged("escape", FALSE)
    /\ UNCHANGED <<lookVars, isPopupOpen, currentSignId, quizVars>>
    /\ Unmoved

\* mouse look: turns the camera (camera.matrix follows at the next render);
\* ignored while the pointer is not locked
MouseMove(yw) ==
    /\ isLocked
    /\ yaw' = yw
    /\ UNCHANGED <<matrixYaw, lockVars, currentSignId, quizVars, lockTrace>>
    /\ Unmoved

\* click on a sign in reach while locked: openSignPopup(id); the quiz area is
\* hidden and the sign's information shown
OpenSignPopup(id) ==
    /\ isLocked
    /\ isLocked' = FALSE
    /\ isPopupOpen' = TRUE
    /\ currentSignId' = id
    /\ quizArea' = QuizHidden
    /\ Logged("openSignPopup", FALSE)
    /\ UNCHANGED <<lookVars, signScores, signStates, hud>>
    /\ Unmoved

\* the popup's close button: hidePopup()
HidePopup ==
    /\ isPopupOpen
    /\ isPopupOpen' = FALSE
    /\ currentSignId' = "null"
    /\ quizArea' = QuizHidden
    /\ isLocked' = TRUE
    /\ Logged("hidePopup", ~isLocked)
    /\ UNCHANGED <<lookVars, signScores, signStates, hud>>
    /\ Unmoved

\* a click inside the open popup also reaches the page's click listener, which
\* returns before controls.lock()
ClickInPopup(op) ==
    /\ isPopupOpen
    /\ Logged(op, FALSE)
    /\ UNCHANGED <<lookVars, lockVars, currentSignId>>
    /\ Unmoved

\* the popup's quiz button: if (currentSignId) startQuiz(currentSignId)
StartQuiz ==
    /\ quizArea.view = "none"
    /\ ClickInPopup("startQuiz")
    /\ quizArea' = IF currentSignId # "null"
                   THEN [view |-> "questions", id |-> currentSignId, answers |-> <<>>]
                   ELSE quizArea
    /\ UNCHANGED <<signScores, signStates, hud>>

\* the quiz's check button with the radios as checked: finishQuiz(id)
FinishQuiz(id, userAnswers) ==
    /\ quizArea = [view |-> "questions", id |-> id, answers |-> <<>>]
    /\ ClickInPopup("finishQuiz")
    /\ LET data == quizData[id]
           correct == CorrectCount(data, userAnswers)
       IN  /\ signScores' = [k \in DOMAIN signScores \cup {id} |->
                                IF k = id THEN correct * 2 ELSE signScores[k]]
           /\ signStates' = Mastered(signStates, id, correct, Len(data))
           /\ hud' = HudOf(signScores', signStates')
           /\ quizArea' = [view |-> "results", id |-> id, answers |-> userAnswers]

\* the result list's button back to the sign's information
BackToInfo ==
    /\ quizArea.view = "results"
    /\ ClickInPopup("backToInfo")
    /\ quizArea' = QuizHidden
    /\ UNCHANGED <<signScores, signStates, hud>>

----------------------------------------------------------------------------
(* The state after init() *)

\* controls.getObject().position.set(0, 2, 20)
Spawn == [x |-> 0, y |-> 2 * PosScale, z |-> 20 * PosScale]

\* initLighting: the lights at their first intensities, the lamps and the five
\* traffic lights created dark
SkyAfterInit ==
    [sunY |-> 0, moonY |-> 0, sunVisible |-> TRUE, moonVisible |-> TRUE,
     drawn |-> FALSE, dayFactor |-> 0, nightFactor |-> 0,
     sunIntensity |-> 10000, hemiIntensity |-> 7000, blend |-> 0,
     skyColor |-> LerpColors(dayColor, dayColor, 0),
     lamps |-> [i \in 1..LampCount |-> 0]]

TrafficLightsAfterInit ==
    [i \in 1..5 |-> [timer |-> 0, state |-> 0, red |-> 0, yellow |-> 0, green |-> 0]]

\* the modules as loaded, the camera at pos, the handles as in h
Loaded(t, draw, pos, h, s, lights) ==
    /\ moveForward = FALSE /\ moveBackward = FALSE
    /\ moveLeft = FALSE /\ moveRight = FALSE /\ sprint = FALSE
    /\ velocity = [x |-> 0, y |-> 0, z |-> 0]
    /\ position = pos
    /\ yaw = 1
    /\ matrixYaw = 1
    /\ isLocked = FALSE
    /\ dayNightAuto = FALSE
    /\ timeOfDay = t
    /\ sizeDraw = draw
    /\ isPopupOpen = FALSE
    /\ clockText = <<>>
    /\ last = [seq |-> 0, op |-> "init", code |-> "", delta |-> 0]
    /\ prevAuto = FALSE
    /\ ticks = 0
    /\ events = 0
    /\ heldAt = "none"
    /\ dayStart = -1
    /\ dayElapsed = 0
    /\ moveTrace = [delta |-> 0, idle |-> TRUE, locked |-> FALSE,
                    oldPos |-> pos, oldVel |-> [x |-> 0, y |-> 0, z |-> 0],
                    distX |-> 0, distZ |-> 0, hitX |-> FALSE, hitZ |-> FALSE,
                    rawX |-> pos.x, rawZ |-> pos.z]
    /\ sky = s
    /\ trafficLights = lights
    /\ bird = <<>>
    /\ treeLoop = [pc |-> "none", config |-> <<>>, targetCount |-> 0, i |-> 0,
                   count |-> 0, treesPlaced |-> {}, rejected |-> 0]
    /\ birdTrace = [updated |-> FALSE, delta |-> 0, rawX |-> 0, rawZ |-> 0,
                    oldDirection |-> [x |-> 0, z |-> 0], oldSpeed |-> 0]
    /\ frameLog = <<>>
    /\ handles = h
    /\ currentSignId = "null"
    /\ signScores = NoScores
    /\ signStates = NoneMastered
    /\ quizArea = QuizHidden
    /\ hud = HudOf(NoScores, NoneMastered)
    /\ frameExit = [op |-> "init", early |-> FALSE, threw |-> FALSE, returned |-> {}]
    /\ lockTrace = [seq |-> 0, op |-> "init", requested |-> FALSE]

InitAt(t, draw) ==
    Loaded(t, draw, Spawn, [controls |-> TRUE, hemiLight |-> TRUE, sunLight |-> TRUE],
           SkyAfterInit, TrafficLightsAfterInit)

InitWith(t, rw, rd) == InitAt(t, <<rw, rd>>)

Init ==
    \E i \in 1..Len(SizeDraws) :
        InitWith((25 * One) \div 100, SizeDraws[i][1], SizeDraws[i][2])

\* one more frame, of at most max
Frame(max) == ticks < max /\ ticks' = ticks + 1 /\ UNCHANGED events
\* one more input event, of at most max
Input(max) == events < max /\ events' = events + 1 /\ UNCHANGED ticks

(* Player movement, in the city with the larger generated buildings *)
InitMove ==
    InitWith((25 * One) \div 100, SizeDraws[Len(SizeDraws)][1],
             SizeDraws[Len(SizeDraws)][2])

NextMove ==
    \/ \E code \in MoveCodes : Input(MaxEvents) /\ OnKeyDown(code)
    \/ \E code \in MoveCodes : Input(MaxEvents) /\ OnKeyUp(code)
    \/ \E delta \in MoveDeltas : Frame(MaxTicks) /\ UpdateMovement(delta)
    \/ \E yw \in 1..Len(Yaws) : Input(MaxEvents) /\ MouseMove(yw)
    \/ Input(MaxEvents) /\ BodyClick

SpecMove == InitMove /\ [][NextMove]_vars

(* Pointer lock, mouse look and the sign popup *)
LookCodes == {"KeyW", "KeyD"}
\* frame times of the pointer runs: 50 ms, 500 ms, 1 s
LookDeltas == {2, Hz \div 2, Hz}

NextLook ==
    \/ \E code \in LookCodes : Input(MaxLookEvents) /\ OnKeyDown(code)
    \/ \E code \in LookCodes : Input(MaxLookEvents) /\ OnKeyUp(code)
    \/ \E delta \in LookDeltas : Frame(MaxLookTicks) /\ UpdateMovement(delta)
    \/ \E yw \in 1..Len(Yaws) : Input(MaxLookEvents) /\ MouseMove(yw)
    \/ Input(MaxLookEvents) /\ BodyClick
    \/ Input(MaxLookEvents) /\ Escape
    \/ \E id \in LookSigns : Input(MaxLookEvents) /\ OpenSignPopup(id)
    \/ Input(MaxLookEvents) /\ HidePopup

SpecLook == Init /\ [][NextLook]_vars

(* The day/night clock *)
InitClock == InitWith((25 * One) \div 100, 0, 0)

NextClock ==
    \/ \E code \in ClockCodes : OnKeyDown(code) /\ UNCHANGED <<ticks, events>>
    \/ \E code \in ClockCodes : OnKeyUp(code) /\ UNCHANGED <<ticks, events>>
    \/ \E delta \in ClockDeltas : Frame(MaxClockTicks) /\ UpdateDayNight(delta)

SpecClock == InitClock /\ [][NextClock]_vars

(* The HUD clock text as a function of the phase *)
PhaseStep == 10000
PhaseSamples == {i * PhaseStep : i \in 0..((One - 1) \div PhaseStep)}

InitClockText == \E t \in PhaseSamples : InitWith(t, 0, 0)

NextClockText == UpdateGameClock /\ UNCHANGED <<ticks, events>>

SpecClockText == InitClockText /\ [][NextClockText]_vars

(* unnamed/part_001: class Bird.  Direction components in units of 1e-4,      *)
(* speed in 1/100 unit per second                                            *)

\* normalised horizontal directions the constructor can draw; (0, 0) is what
\* normalize() leaves of a zero vector
BirdDirections ==
    {[x |-> 10000, z |-> 0], [x |-> -10000, z |-> 0], [x |-> 0, z |-> 10000],
     [x |-> 0, z |-> -10000], [x |-> 7071, z |-> 7071], [x |-> -6000, z |-> 8000],
     [x |-> 0, z |-> 0]}

\* this.speed = 5 + Math.random() * 5
BirdSpeeds == {5 * PosScale, 10 * PosScale - 1}

\* Math.sin(time * 2) * 0.02, time read from the wall clock
BirdBobs == {-2, 0, 2}

\* new Bird(): a THREE.Group at the origin
NewBird(dir, spd) ==
    /\ bird = <<>>
    /\ bird' = [x |-> 0, y |-> 0, z |-> 0, direction |-> dir, speed |-> spd]
    /\ UNCHANGED <<keyVars, bodyVars, lookVars, lockVars, uiVars, frameExit, clockVars, sizeDraw, sky,
                   trafficLights, treeLoop, birdTrace, frameLog, clockText, histClock,
                   moveTrace, last, prevAuto>>

\* a variant that stops the bird at the boundary
WrapCoordStop(c) ==
    IF c > 300 * PosScale THEN 300 * PosScale
    ELSE IF c < -300 * PosScale THEN -300 * PosScale ELSE c

\* if (c > 300) c = -300; if (c < -300) c = 300
WrapCoord(c) ==
    LET c1 == IF c > 300 * PosScale THEN -300 * PosScale ELSE c
    IN  IF c1 < -300 * PosScale THEN 300 * PosScale ELSE c1

\* this.position.addScaledVector(this.direction, this.speed * delta), one axis
BirdAdvance(c, d, spd, delta) == c + Quot(Quot(d * spd, 10000) * delta, Hz)

\* Bird.update(delta)
BirdUpdate(delta, bob) ==
    /\ bird # <<>>
    /\ LET rawX == BirdAdvance(bird.x, bird.direction.x, bird.speed, delta)
           rawZ == BirdAdvance(bird.z, bird.direction.z, bird.speed, delta)
       IN  /\ bird' = [bird EXCEPT !.x = WrapCoord(rawX), !.z = WrapCoord(rawZ),
                                   !.y = bird.y + bob]
           /\ birdTrace' = [updated |-> TRUE, delta |-> delta, rawX |-> rawX,
                            rawZ |-> rawZ, oldDirection |-> bird.direction,
                            oldSpeed |-> bird.speed]
    /\ UNCHANGED <<keyVars, bodyVars, lookVars, lockVars, uiVars, frameExit, clockVars, sizeDraw, sky,
                   trafficLights, treeLoop, frameLog, clockText, histClock,
                   moveTrace, last, prevAuto>>

----------------------------------------------------------------------------
(* unnamed/part_004 (js/main.js): animate, one frame of the main loop *)

\* a variant that refreshes the clock readout before the celestial clock moves
AnimateOrderClockFirst ==
    <<"updateMovement", "updateTrafficLights", "updateGameClock", "updateDayNight",
      "updateInteractionHint", "updateMinimap">>

\* the calls of animate(), in the order of the source
AnimateOrder ==
    <<"updateMovement", "updateTrafficLights", "updateDayNight",
      "updateInteractionHint", "updateMinimap", "updateGameClock">>

\* one call of the frame, applied to the values the frame has produced so far;
\* the log entry keeps the argument of the call and what the call could read
RunUpdate(st, op, delta) ==
    LET moved == MovementResult(st.position, st.velocity, moveForward, moveBackward,
                                moveLeft, moveRight, sprint, matrixYaw, isLocked,
                                buildingColliders, delta)
        phase == PhaseAfter(st.timeOfDay, dayNightAuto, delta)
        after ==
            CASE op = "updateMovement" /\ ~handles.controls ->
                   [st EXCEPT !.frameExit = ExitAfter(st.frameExit, op, TRUE, FALSE)]
              [] op = "updateMovement" /\ handles.controls ->
                   [st EXCEPT !.position = moved.position,
                              !.velocity = moved.velocity,
                              !.moveTrace = moved.trace,
                              !.frameExit = ExitAfter(st.frameExit, op, FALSE, FALSE)]
              [] op = "updateTrafficLights" ->
                   [st EXCEPT !.trafficLights =
                        [i \in 1..Len(st.trafficLights) |->
                            LightAfter(st.trafficLights[i], delta)]]
              [] op = "updateDayNight" /\ ~LightsReady(handles) ->
                   [st EXCEPT !.frameExit = ExitAfter(st.frameExit, op, TRUE, FALSE)]
              [] op = "updateDayNight" /\ LightsReady(handles) ->
                   [st EXCEPT !.timeOfDay = phase, !.sky = SkyAt(phase),
                              !.frameExit = ExitAfter(st.frameExit, op, FALSE, FALSE)]
              [] op = "updateGameClock" ->
                   [st EXCEPT !.clockText = ClockString(st.timeOfDay)]
              [] OTHER -> st
        arg == IF op \in {"updateMovement", "updateTrafficLights", "updateDayNight"}
               THEN <<delta>> ELSE <<>>
    IN  [after EXCEPT !.frameLog =
            Append(@, [op |-> op, args |-> arg, timeOfDay |-> after.timeOfDay,
                       position |-> after.position])]

RECURSIVE RunFrame(_, _, _)
RunFrame(st, ops, delta) ==
    IF ops = <<>> THEN st
    ELSE RunFrame(RunUpdate(st, Head(ops), delta), Tail(ops), delta)

\* animate() with clock.getDelta() = delta, the closing render() included
Animate(delta) ==
    \E st \in {RunFrame([position |-> position, velocity |-> velocity,
                         moveTrace |-> moveTrace, trafficLights |-> trafficLights,
                         timeOfDay |-> timeOfDay, sky |-> sky,
                         clockText |-> clockText, frameLog |-> <<>>,
                         frameExit |-> frameExit],
                        AnimateOrder, delta)} :
        /\ position' = st.position
        /\ velocity' = st.velocity
        /\ moveTrace' = st.moveTrace
        /\ trafficLights' = st.trafficLights
        /\ timeOfDay' = st.timeOfDay
        /\ sky' = st.sky
        /\ clockText' = st.clockText
        /\ frameLog' = st.frameLog
        /\ frameExit' = st.frameExit
        /\ matrixYaw' = yaw
        /\ last' = [seq |-> 1 - last.seq, op |-> "animate", code |-> "",
                    delta |-> delta]
        /\ prevAuto' = dayNightAuto
        /\ dayElapsed' = IF dayNightAuto /\ LightsReady(handles)
                        THEN dayElapsed + delta ELSE dayElapsed
        /\ UNCHANGED <<keyVars, yaw, lockVars, uiVars, dayNightAuto, sizeDraw, bird, treeLoop,
                       birdTrace, heldAt, dayStart>>

----------------------------------------------------------------------------
(* Start-up: the per-frame updates called while init() has not yet assigned     *)
(* every handle (main.js init: initScene, initControls, ..., initLighting)       *)
MaxBootTicks == 3
MaxBootEvents == 3
BootCodes == {"KeyW", "KeyN"}
BootDeltas == {Hz \div 2, Hz}

\* after initScene(): the camera at the origin, no controls, no world, no lights
InitBoot ==
    Loaded((25 * One) \div 100, <<>>, [x |-> 0, y |-> 0, z |-> 0],
           [controls |-> FALSE, hemiLight |-> FALSE, sunLight |-> FALSE],
           [SkyAfterInit EXCEPT !.lamps = <<>>], <<>>)

BootUnchanged ==
    UNCHANGED <<keyVars, velocity, lookVars, lockVars, clockVars, sizeDraw,
                clockText, last, prevAuto, ticks, events, histClock, moveTrace,
                bird, treeLoop, birdTrace, frameLog, currentSignId, quizVars,
                frameExit, lockTrace>>

\* initControls: controls = new PointerLockControls(camera, document.body)
InitControls ==
    /\ ~handles.controls
    /\ handles' = [handles EXCEPT !.controls = TRUE]
    /\ position' = Spawn
    /\ UNCHANGED <<sky, trafficLights>>
    /\ BootUnchanged

\* initLighting: hemiLight and sunLight, the lamps, the traffic lights
InitLighting ==
    /\ handles.controls
    /\ ~LightsReady(handles)
    /\ handles' = [handles EXCEPT !.hemiLight = TRUE, !.sunLight = TRUE]
    /\ sky' = SkyAfterInit
    /\ trafficLights' = TrafficLightsAfterInit
    /\ UNCHANGED position
    /\ BootUnchanged

\* the key listeners exist once initControls has run
NextBoot ==
    \/ InitControls
    \/ InitLighting
    \/ \E code \in BootCodes : handles.controls /\ Input(MaxBootEvents) /\ OnKeyDown(code)
    \/ \E delta \in BootDeltas : Frame(MaxBootTicks) /\ UpdateMovement(delta)
    \/ \E delta \in BootDeltas : Frame(MaxBootTicks) /\ UpdateDayNight(delta)

SpecBoot == InitBoot /\ [][NextBoot]_vars

----------------------------------------------------------------------------
(* The signs: popups and quizzes between clicks *)
MaxQuizEvents == 9

NextQuiz ==
    \/ Input(MaxQuizEvents) /\ BodyClick
    \/ Input(MaxQuizEvents) /\ Escape
    \/ \E id \in SignIds : Input(MaxQuizEvents) /\ OpenSignPopup(id)
    \/ Input(MaxQuizEvents) /\ HidePopup
    \/ Input(MaxQuizEvents) /\ StartQuiz
    \/ \E id \in SignIds : \E userAnswers \in AnswerSamples(id) :
           Input(MaxQuizEvents) /\ FinishQuiz(id, userAnswers)
    \/ Input(MaxQuizEvents) /\ BackToInfo

SpecQuiz == InitClock /\ [][NextQuiz]_vars

----------------------------------------------------------------------------
(* The main loop: frames between key presses *)
MaxFrames == 3
FrameCodes == {"KeyW", "KeyN", "Digit3", "Digit4"}
FrameDeltas == {0, Hz \div 2, Hz}

NextFrame ==
    \/ \E code \in FrameCodes : OnKeyDown(code) /\ UNCHANGED <<ticks, events>>
    \/ \E delta \in FrameDeltas : Frame(MaxFrames) /\ Animate(delta)

SpecFrame == InitClock /\ [][NextFrame]_vars

----------------------------------------------------------------------------
(* js/world/buildings.js: addRandomTreesSmart and its checks.  A random       *)
(* number in [0, 1) is drawn in hundredths, an angle as a fraction of a turn  *)

maxAttempts == 300
minCount == 8
maxCount == 15
radiusMax == 15

\* const noTreeZones: xMin, xMax, zMin, zMax
noTreeZones == { <<30, 55, -55, -25>>, <<-20, 20, -55, -25>> }

\* isInNoTreeZone(x, z)
isInNoTreeZone(x, z) ==
    \E zone \in noTreeZones :
        /\ x >= zone[1] * PosScale /\ x <= zone[2] * PosScale
        /\ z >= zone[3] * PosScale /\ z <= zone[4] * PosScale

\* isTooCloseToRoadLoose(x, z): safeDist = roadWidth / 2 + 1.5, doubled
isTooCloseToRoadLoose(x, z) ==
    LET near(d) == 2 * Abs(d) < (roadWidth + 3) * PosScale
    IN  \/ near(z)
        \/ near(x)
        \/ \E i \in RoadLines :
              \/ near(x - i * PosScale) /\ Abs(z) < 150 * PosScale
              \/ near(z - i * PosScale) /\ Abs(x) < 150 * PosScale

\* Math.floor(Math.random() * (maxCount - minCount + 1)) + minCount
TargetCount(u) == (u * (maxCount - minCount + 1)) \div 100 + minCount

\* radiusMin = Math.max(halfW, halfD) + 1.5
RadiusMin(config) ==
    (IF config.width > config.depth THEN config.width ELSE config.depth) \div 2
    + (3 * PosScale) \div 2

\* the candidate: polar coordinates around the building, made cartesian
Candidate(config, angle, u) ==
    LET dist == RadiusMin(config)
                + Quot(u * (radiusMax * PosScale - RadiusMin(config)), 100)
    IN  [x |-> config.x + Quot(SinTurn(angle + One \div 4) * dist, 10000),
         z |-> config.z + Quot(SinTurn(angle) * dist, 10000)]

\* checks 2 to 5 of the loop body: the candidate is skipped
TreeRejected(config, t, placed) ==
    \/ /\ 2 * t.x > 2 * config.x - config.width - 2 * PosScale
       /\ 2 * t.x < 2 * config.x + config.width + 2 * PosScale
       /\ 2 * t.z > 2 * config.z - config.depth - 2 * PosScale
       /\ 2 * t.z < 2 * config.z + config.depth + 2 * PosScale
    \/ isTooCloseToRoadLoose(t.x, t.z)
    \/ isInNoTreeZone(t.x, t.z)
    \/ \E q \in placed :
          4 * ((q.x - t.x) * (q.x - t.x) + (q.z - t.z) * (q.z - t.z))
              < 9 * PosScale * PosScale

\* a variant of the loop condition without the attempt limit
LoopContinuesUncapped(i, count, targetCount) == count < targetCount

\* i < maxAttempts && count < targetCount
LoopContinues(i, count, targetCount) == i < maxAttempts /\ count < targetCount

TreeUnchanged ==
    UNCHANGED <<keyVars, bodyVars, lookVars, lockVars, uiVars, frameExit, clockVars, sizeDraw, sky,
                trafficLights, bird, birdTrace, frameLog, clockText, histClock,
                moveTrace, last, prevAuto>>

\* addRandomTreesSmart(config): entry, up to the loop
AddRandomTreesSmart(config, u) ==
    /\ treeLoop.pc = "none"
    /\ treeLoop' = [pc |-> "loop", config |-> config, targetCount |-> TargetCount(u),
                    i |-> 0, count |-> 0, treesPlaced |-> {}, rejected |-> 0]
    /\ TreeUnchanged

\* one pass of the loop body, the i++ included
TreeAttempt(angle, u) ==
    /\ treeLoop.pc = "loop"
    /\ LoopContinues(treeLoop.i, treeLoop.count, treeLoop.targetCount)
    /\ LET t == Candidate(treeLoop.config, angle, u)
       IN  IF TreeRejected(treeLoop.config, t, treeLoop.treesPlaced)
           THEN treeLoop' = [treeLoop EXCEPT !.i = @ + 1, !.rejected = @ + 1]
           ELSE treeLoop' = [treeLoop EXCEPT !.i = @ + 1, !.count = @ + 1,
                                             !.treesPlaced = @ \cup {t}]
    /\ TreeUnchanged

\* the loop condition fails: the function returns
TreeReturn ==
    /\ treeLoop.pc = "loop"
    /\ ~LoopContinues(treeLoop.i, treeLoop.count, treeLoop.targetCount)
    /\ treeLoop' = [treeLoop EXCEPT !.pc = "done"]
    /\ TreeUnchanged

----------------------------------------------------------------------------
(* Trees around one building *)
TreeAngles == {0, One \div 8, One \div 4, One \div 2}
TreeDraws == {0, 50, 99}
TreeConfigs ==
    {c \in {InitWorld(0, 0)[k] : k \in 1..Len(InitWorld(0, 0))} :
        <<c.x, c.z>> \in {<<0, 0>>, <<40 * PosScale, 40 * PosScale>>}}

TreeStep ==
    \/ \E angle \in TreeAngles : \E u \in TreeDraws :
          TreeAttempt(angle, u) /\ UNCHANGED <<ticks, events>>
    \/ TreeReturn /\ UNCHANGED <<ticks, events>>

NextTrees ==
    \/ \E config \in TreeConfigs : \E u \in {0, 99} :
          AddRandomTreesSmart(config, u) /\ UNCHANGED <<ticks, events>>
    \/ TreeStep

SpecTrees == InitClock /\ [][NextTrees]_vars

----------------------------------------------------------------------------
(* A bird flying across the world *)
MaxBirdTicks == 3
BirdDeltas == {0, 1, Hz, 40 * Hz}

InitBird == InitWith((25 * One) \div 100, 0, 0)

NextBird ==
    \/ \E dir \in BirdDirections : \E spd \in BirdSpeeds :
          NewBird(dir, spd) /\ UNCHANGED <<ticks, events>>
    \/ \E delta \in BirdDeltas : \E bob \in BirdBobs :
          Frame(MaxBirdTicks) /\ BirdUpdate(delta, bob)

SpecBird == InitBird /\ [][NextBird]_vars

----------------------------------------------------------------------------
(* The city as a function of the random draws of the building data *)
MaxDraws == 10       \* sampled values of a random term, less one
DrawSamples == {(i * (2 * PosScale - 1)) \div MaxDraws : i \in 0..MaxDraws}

InitCity == InitAt((25 * One) \div 100, <<>>)

NextCity ==
    \E rw \in DrawSamples : \E rd \in DrawSamples :
        CreateWorld(rw, rd) /\ UNCHANGED <<ticks, events>>

SpecCity == InitCity /\ [][NextCity]_vars

(* The traffic lights; frames with a positive delta keep arriving *)
\* frame times of the traffic runs: 0, 25 ms, 1 s, 4 s, 4.025 s, 100 s
TrafficDeltas == {0, 1, Hz, 4 * Hz, 4 * Hz + 1, 100 * Hz}

NextTraffic ==
    \E delta \in TrafficDeltas : UpdateTrafficLights(delta) /\ UNCHANGED <<ticks, events>>

PositiveTick ==
    \E delta \in TrafficDeltas \ {0} :
        UpdateTrafficLights(delta) /\ UNCHANGED <<ticks, events>>

SpecTraffic == InitClock /\ [][NextTraffic]_vars /\ WF_vars(PositiveTick)

(* The sky as a function of the phase *)
MaxSkyTicks == 2     \* frames of a sky run
\* frame times of the sky runs: 0, 1 s
SkyDeltas == {0, Hz}

InitSky == \E t \in PhaseSamples : InitWith(t, 0, 0)

NextSky ==
    \/ OnKeyDown("KeyN") /\ UNCHANGED <<ticks, events>>
    \/ \E delta \in SkyDeltas : Frame(MaxSkyTicks) /\ UpdateDayNight(delta)

SpecSky == InitSky /\ [][NextSky]_vars

----------------------------------------------------------------------------
(* Player movement: properties of SpecMove *)

\* C1: after every updateMovement tick (any delta >= 0, any keys, any yaw) the
\* player's x and z each lie in [-130, 130]; whenever the tick would leave x
\* or z beyond +/-130, that coordinate is exactly +/-130 and the velocity
\* component of the same axis is 0.
StaysInsideBoundary ==
    /\ -130 * PosScale <= position.x /\ position.x <= 130 * PosScale
    /\ -130 * PosScale <= position.z /\ position.z <= 130 * PosScale
    /\ moveTrace.rawX > 130 * PosScale
          => position.x = 130 * PosScale /\ velocity.x = 0
    /\ moveTrace.rawX < -130 * PosScale
          => position.x = -130 * PosScale /\ velocity.x = 0
    /\ moveTrace.rawZ > 130 * PosScale
          => position.z = 130 * PosScale /\ velocity.z = 0
    /\ moveTrace.rawZ < -130 * PosScale
          => position.z = -130 * PosScale /\ velocity.z = 0

\* C1 happens: a tick with the camera turned carried the player past the
\* boundary on both axes
ClampedOnBothAxes ==
    /\ matrixYaw # 1
    /\ moveTrace.rawX < -130 * PosScale
    /\ moveTrace.rawZ > 130 * PosScale
    /\ position.x = -130 * PosScale
    /\ position.z = 130 * PosScale

----------------------------------------------------------------------------
(* Pointer lock and mouse look: properties of SpecLook *)

\* C2: axis-separated sliding: in a tick where the X displacement puts the
\* player inside a collider padded by the player radius while the Z
\* displacement is unobstructed, after the tick the player's x equals its
\* pre-tick value, velocity.x is 0, and the Z displacement has still been
\* applied (z changed, velocity.z not zeroed).
SlidesAlongCollider ==
    (/\ moveTrace.hitX
     /\ ~moveTrace.hitZ
     /\ moveTrace.distZ # 0
     /\ Abs(moveTrace.rawX) <= 130 * PosScale
     /\ Abs(moveTrace.rawZ) <= 130 * PosScale)
    => /\ position.x = moveTrace.oldPos.x
       /\ velocity.x = 0
       /\ position.z # moveTrace.oldPos.z
       /\ velocity.z # 0

MovesOnlyWhenLocked ==
    [][~isLocked => (position' = position /\ velocity' = velocity)]_vars

----------------------------------------------------------------------------
(* The day/night clock: properties of SpecClock *)

\* the step is a frame's updateDayNight
IsDayNightTick == last'.seq # last.seq /\ last'.op = "updateDayNight"
\* the step is a press of the given key
IsKeyDown(code) == last'.seq # last.seq /\ last'.op = "keydown" /\ last'.code = code

\* C5: the phase stays in [0, 1): from the initial 0.25, after any interleaving
\* of Digit1-4 / KeyN presses and updateDayNight ticks with delta >= 0,
\* 0 <= timeOfDay < 1.
PhaseInUnitInterval == 0 <= timeOfDay /\ timeOfDay < One

\* C5 happens: auto-advance carried the phase past 1.0, and it wrapped
PhaseWrapped ==
    /\ dayNightAuto
    /\ last.op = "updateDayNight"
    /\ dayElapsed > 0
    /\ dayStart + (dayElapsed * 13880) \div Hz >= One
    /\ timeOfDay < dayStart

\* C6: a press of Digit1, Digit2, Digit3 or Digit4 sets the phase to exactly
\* 0.05, 0.25, 0.48 or 0.75 and switches auto-advance off, and the ticks that
\* follow leave the phase there until KeyN is pressed: while the last such
\* press has not been followed by KeyN (or another Digit key), the phase is
\* that key's checkpoint and auto-advance is off.
DigitHoldsCheckpoint ==
    /\ heldAt = "Digit1" => timeOfDay = 500000 /\ ~dayNightAuto
    /\ heldAt = "Digit2" => timeOfDay = 2500000 /\ ~dayNightAuto
    /\ heldAt = "Digit3" => timeOfDay = 4800000 /\ ~dayNightAuto
    /\ heldAt = "Digit4" => timeOfDay = 7500000 /\ ~dayNightAuto

\* C6 happens: Digit3 was pressed and a tick of positive duration has passed
\* since
CheckpointHeldOverTick ==
    /\ heldAt = "Digit3"
    /\ last.op = "updateDayNight"
    /\ last.delta > 0
    /\ timeOfDay = 4800000

\* C7: updateDayNight changes the phase only when auto-advance is on: with it
\* off a tick of any delta leaves the phase unchanged, with it on the new phase
\* is (phase + delta * 0.001388) mod 1; the tick never changes auto-advance.
TickAdvancesOnlyOnAuto ==
    [][IsDayNightTick =>
        /\ dayNightAuto' = dayNightAuto
        /\ ~dayNightAuto => timeOfDay' = timeOfDay
        /\ dayNightAuto =>
              timeOfDay' = (timeOfDay + (last'.delta * 13880) \div Hz) % One]_vars

\* C7 happens: a tick of positive duration with auto-advance off has left the
\* phase where a running clock had carried it
TickedWithAutoOff ==
    /\ last.op = "updateDayNight"
    /\ last.delta > 0
    /\ ~dayNightAuto
    /\ heldAt = "none"
    /\ timeOfDay \notin {500000, 2500000, 4800000, 7500000}

\* C8: KeyN toggles auto-advance and nothing else: each press flips
\* dayNightAuto and leaves the phase and the movement flags unchanged, two
\* consecutive presses restore the previous value, and auto-advance is off in
\* the initial state.
KeyNTogglesOnly ==
    /\ ~dayNightAuto
    /\ [][IsKeyDown("KeyN") =>
            /\ dayNightAuto' = ~dayNightAuto
            /\ timeOfDay' = timeOfDay
            /\ keyVars' = keyVars
            /\ (last.op = "keydown" /\ last.code = "KeyN")
                  => dayNightAuto' = prevAuto]_vars

\* C8 happens: KeyN was pressed twice in a row, with a movement flag set
KeyNPressedTwice ==
    /\ last.op = "keydown"
    /\ last.code = "KeyN"
    /\ prevAuto
    /\ ~dayNightAuto
    /\ moveForward
    /\ dayStart = -1
    /\ timeOfDay # 2500000

\* C9: with auto-advance on, a full day completes in 720 real seconds: from any
\* phase p, after ticks whose durations sum to exactly 720 seconds the phase is
\* back at p.
DayTakes720Seconds ==
    (dayNightAuto /\ dayElapsed = 720 * Hz) => timeOfDay = dayStart

----------------------------------------------------------------------------
(* The HUD clock: properties of SpecClockText *)

\* C10: the HUD clock text is a function of the phase, "HH:MM" with
\* HH = floor((6 + 24 * phase) mod 24) and MM = floor(fractional hour * 60):
\* phase 0 gives "06:00", 0.25 gives "12:00", 0.5 gives "18:00", 0.75 gives
\* "00:00", and for every phase in [0, 1) HH is in 0..23 and MM in 0..59.
ClockTextShowsPhase ==
    last.op = "updateGameClock" =>
        LET value(ch) == CHOOSE d \in 0..9 : DigitChars[d + 1] = ch
            hh == 10 * value(clockText[1]) + value(clockText[2])
            mm == 10 * value(clockText[4]) + value(clockText[5])
            hour == (6 * One + 24 * timeOfDay) % (24 * One)
        IN  /\ Len(clockText) = 5
            /\ clockText[3] = ":"
            /\ \A i \in {1, 2, 4, 5} : \E d \in 1..10 : DigitChars[d] = clockText[i]
            /\ hh = hour \div One
            /\ mm = ((hour % One) * 60) \div One
            /\ hh \in 0..23
            /\ mm \in 0..59
            /\ timeOfDay = 0 => clockText = <<"0", "6", ":", "0", "0">>
            /\ timeOfDay = 2500000 => clockText = <<"1", "2", ":", "0", "0">>
            /\ timeOfDay = 5000000 => clockText = <<"1", "8", ":", "0", "0">>
            /\ timeOfDay = 7500000 => clockText = <<"0", "0", ":", "0", "0">>

\* C10 happens: the clock was drawn at a phase past 0.75, where 6 + 24 * phase
\* has passed 24, with minutes to show
ClockDrawnPastMidnight ==
    /\ last.op = "updateGameClock"
    /\ timeOfDay > 7500000
    /\ clockText[1] = "0"
    /\ clockText[4] # "0"

----------------------------------------------------------------------------
(* Sun and moon: properties of SpecSky *)

\* C11 as stated: for every phase, after updateDayNight the sun and the moon
\* are never both visible (the moon is visible iff the sun is not); at phase
\* 0.25 the sun is visible and the moon is not, at 0.75 the moon only.
SunMoonExclusive ==
    last.op = "updateDayNight" =>
        /\ sky.moonVisible <=> ~sky.sunVisible
        /\ timeOfDay = 2500000 => sky.sunVisible /\ ~sky.moonVisible
        /\ timeOfDay = 7500000 => ~sky.sunVisible /\ sky.moonVisible

\* C11, amended: after updateDayNight the sun is visible iff its height
\* sunY = 150 * sin(2 * pi * phase) is above -10 and the moon, at height -sunY,
\* iff sunY is below 10; so the two are never both hidden, and both are
\* visible exactly in the twilight bands |sunY| < 10, which lie within 0.0107
\* of the phases 0 and 0.5 and cover everything within 0.0105 of them; at
\* phase 0.25 only the sun is visible and at 0.75 only the moon.
SunMoonBySymmetricThreshold ==
    last.op = "updateDayNight" =>
        LET twilight(width) ==
                \/ timeOfDay <= width
                \/ timeOfDay >= One - width
                \/ (5000000 - width <= timeOfDay /\ timeOfDay <= 5000000 + width)
        IN  /\ sky.moonY = -sky.sunY
            /\ sky.sunVisible <=> sky.sunY > -1000
            /\ sky.moonVisible <=> sky.sunY < 1000
            /\ sky.sunVisible \/ sky.moonVisible
            /\ (sky.sunVisible /\ sky.moonVisible) => twilight(107000)
            /\ twilight(105000) => (sky.sunVisible /\ sky.moonVisible)
            /\ timeOfDay = 2500000 => sky.sunVisible /\ ~sky.moonVisible
            /\ timeOfDay = 7500000 => ~sky.sunVisible /\ sky.moonVisible

\* C11 happens: the sky was drawn with the sun setting, just below the horizon
\* and still visible, and the moon already visible
BothVisibleAtDusk ==
    /\ last.op = "updateDayNight"
    /\ timeOfDay > 5000000
    /\ sky.sunY < 0
    /\ sky.sunVisible
    /\ sky.moonVisible

SkyColourMeetsAtSunset ==
    sky.drawn =>
        LET near(c, stop) ==
                /\ Abs(c.r - stop.r * 10000) <= 30000
                /\ Abs(c.g - stop.g * 10000) <= 30000
                /\ Abs(c.b - stop.b * 10000) <= 30000
            exact(c, stop) ==
                c = [r |-> stop.r * 10000, g |-> stop.g * 10000, b |-> stop.b * 10000]
        IN  /\ sky.blend \in 0..10000
            /\ sky.dayFactor = 10000 => exact(sky.skyColor, [r |-> 174, g |-> 230, b |-> 255])
            /\ sky.dayFactor = 0 => exact(sky.skyColor, [r |-> 2, g |-> 9, b |-> 36])
            /\ sky.dayFactor = 3000 => exact(sky.skyColor, [r |-> 255, g |-> 195, b |-> 139])
            /\ sky.dayFactor \in 2900..3100 =>
                  near(sky.skyColor, [r |-> 255, g |-> 195, b |-> 139])

----------------------------------------------------------------------------
(* Traffic lights: properties of SpecTraffic *)

\* the step is a frame's updateTrafficLights
IsTrafficTick == last'.seq # last.seq /\ last'.op = "updateTrafficLights"

\* C12: each traffic light's state changes only along RED -> GREEN -> YELLOW
\* -> RED (never RED -> YELLOW, GREEN -> RED or YELLOW -> GREEN), and as long
\* as ticks with positive delta (of a time unit or more) keep arriving, each
\* light is in each of the three states again and again.
LightsCycleForever ==
    /\ [][\A i \in 1..5 :
            \/ trafficLights'[i].state = trafficLights[i].state
            \/ trafficLights[i].state = 0 /\ trafficLights'[i].state = 1
            \/ trafficLights[i].state = 1 /\ trafficLights'[i].state = 2
            \/ trafficLights[i].state = 2 /\ trafficLights'[i].state = 0]_vars
    /\ \A i \in 1..5 : \A st \in 0..2 : []<>(trafficLights[i].state = st)

\* C12 happens: a tick of positive duration has brought a light back to RED
BackToRed ==
    /\ last.op = "updateTrafficLights"
    /\ last.delta > 0
    /\ trafficLights[1].state = 0
    /\ trafficLights[1].timer = 0

\* C13: a light leaves its state only when its timer strictly exceeds the
\* state's duration (RED 4 s, GREEN 4 s, YELLOW 2 s), and then the timer is
\* reset to exactly 0, no overshoot carried over: from RED with timer 0, a
\* tick of 4 s + e yields GREEN with timer 0, a tick of exactly 4 s leaves it
\* RED with timer 4 s.
LeavesOnlyPastDuration ==
    [][IsTrafficTick =>
        \A i \in 1..5 :
            LET light == trafficLights[i]
                timer == light.timer + last'.delta
                duration == IF light.state = 2 THEN 2 * Hz ELSE 4 * Hz
            IN  /\ timer > duration =>
                      /\ trafficLights'[i].state # light.state
                      /\ trafficLights'[i].timer = 0
                /\ timer <= duration =>
                      /\ trafficLights'[i].state = light.state
                      /\ trafficLights'[i].timer = timer
                /\ (light.state = 0 /\ light.timer = 0 /\ last'.delta > 4 * Hz) =>
                      /\ trafficLights'[i].state = 1
                      /\ trafficLights'[i].timer = 0
                /\ (light.state = 0 /\ light.timer = 0 /\ last'.delta = 4 * Hz) =>
                      /\ trafficLights'[i].state = 0
                      /\ trafficLights'[i].timer = 4 * Hz]_vars

\* C13 happens: a tick of exactly 4 s from timer 0 has left a light RED with
\* its timer at 4 s
StillRedAtFourSeconds ==
    /\ last.op = "updateTrafficLights"
    /\ last.delta = 4 * Hz
    /\ trafficLights[1].state = 0
    /\ trafficLights[1].timer = 4 * Hz

\* C24: the lit lamp of a traffic light is a function of its state in every
\* reachable state, the state before the first tick included: exactly one of
\* the red, green and yellow lamps is emissive, red in state RED (0), green in
\* GREEN (1), yellow in YELLOW (2), and the other two are dark.
LitLampMatchesState ==
    \A i \in 1..5 :
        /\ trafficLights[i].red # 0 <=> trafficLights[i].state = 0
        /\ trafficLights[i].green # 0 <=> trafficLights[i].state = 1
        /\ trafficLights[i].yellow # 0 <=> trafficLights[i].state = 2

\* C26: the five traffic lights are always in lockstep: after any sequence of
\* updateTrafficLights ticks every light has the same state and the same
\* timer as every other light.
LightsInLockstep ==
    \A i \in 1..5 : \A j \in 1..5 :
        /\ trafficLights[i].state = trafficLights[j].state
        /\ trafficLights[i].timer = trafficLights[j].timer

\* C26 happens: ticks have brought all five lights to GREEN with time on the
\* timer
AllGreenTogether ==
    /\ last.op = "updateTrafficLights"
    /\ \A i \in 1..5 : trafficLights[i].state = 1 /\ trafficLights[i].timer > 0

\* C27: a single tick advances a traffic light by at most one state however
\* large delta is, and the time beyond the threshold is discarded: from RED
\* with timer 0, one tick with delta = 100 s leaves the light GREEN with
\* timer 0.
OneStatePerTick ==
    [][IsTrafficTick =>
        \A i \in 1..5 :
            LET light == trafficLights[i]
                after == trafficLights'[i]
            IN  /\ \/ after.state = light.state
                   \/ after.state = (light.state + 1) % 3 /\ after.timer = 0
                /\ (light.state = 0 /\ light.timer = 0 /\ last'.delta = 100 * Hz) =>
                      after.state = 1 /\ after.timer = 0]_vars

\* C27 happens: a tick of 100 s has moved a light one state on, to GREEN, with
\* the timer at 0
GreenAfterHundredSeconds ==
    /\ last.op = "updateTrafficLights"
    /\ last.delta = 100 * Hz
    /\ trafficLights[1].state = 1
    /\ trafficLights[1].timer = 0

----------------------------------------------------------------------------
(* Player height: a property of SpecMove *)

\* C19: the player's y coordinate equals 2 after every updateMovement tick
\* (and at start-up), and the tick never modifies the vertical velocity.
HeightPinned ==
    /\ position.y = 2 * PosScale
    /\ velocity.y = moveTrace.oldVel.y

\* C19 happens: a tick moved the player horizontally
WalkedAtHeightTwo ==
    /\ moveTrace.delta > 0
    /\ <<position.x, position.z>> # <<moveTrace.oldPos.x, moveTrace.oldPos.z>>
    /\ moveTrace.oldPos.y = 2 * PosScale

----------------------------------------------------------------------------
(* The frame: properties of SpecFrame *)

\* C18: within every frame the updates run in the fixed order movement,
\* traffic lights, celestial clock, then the UI readouts (interaction hint,
\* minimap, game clock), the first three with the same delta; so the clock
\* text shown in a frame reflects the phase after that frame's clock advance
\* (and the minimap the position after that frame's movement).
FrameOrderFixed ==
    frameLog # <<>> =>
        /\ [k \in 1..Len(frameLog) |-> frameLog[k].op]
             = <<"updateMovement", "updateTrafficLights", "updateDayNight",
                 "updateInteractionHint", "updateMinimap", "updateGameClock">>
        /\ \A k \in 1..3 : frameLog[k].args = frameLog[1].args
        /\ \A k \in 4..6 : frameLog[k].args = <<>>
        /\ frameLog[6].timeOfDay = frameLog[3].timeOfDay
        /\ clockText = ClockString(frameLog[3].timeOfDay)
        /\ frameLog[5].position = frameLog[1].position
        /\ last.op = "animate" =>
              /\ frameLog[1].args = <<last.delta>>
              /\ frameLog[3].timeOfDay = timeOfDay
              /\ clockText = ClockString(timeOfDay)
              /\ frameLog[1].position = position

\* C18 happens: a frame advanced the celestial clock far enough to change the
\* clock readout, and the readout shows the new minute
ClockTextFollowsAdvance ==
    /\ frameLog # <<>>
    /\ last.op = "animate"
    /\ last.delta > 0
    /\ frameLog[2].timeOfDay # timeOfDay
    /\ ClockString(frameLog[2].timeOfDay) # clockText

----------------------------------------------------------------------------
(* Tree placement: properties of SpecTrees *)

\* C17: addRandomTreesSmart always terminates, after at most 300 sampling
\* attempts, for every random sequence: every step inside the loop either
\* uses up one of the 300 attempts or returns, and the function returns only
\* with the attempts used up or the target met.  It places between 0 and targetCount trees, targetCount in 8..15; when
\* every candidate is rejected it places 0 trees.
TreePlacementTerminates ==
    /\ [](treeLoop.pc # "none" =>
            /\ treeLoop.i <= 300
            /\ treeLoop.targetCount \in 8..15
            /\ treeLoop.count \in 0..treeLoop.targetCount
            /\ treeLoop.count = Cardinality(treeLoop.treesPlaced)
            /\ treeLoop.count + treeLoop.rejected = treeLoop.i
            /\ treeLoop.rejected = treeLoop.i => treeLoop.count = 0)
    /\ [](treeLoop.pc = "done" =>
            treeLoop.i = 300 \/ treeLoop.count = treeLoop.targetCount)
    /\ [][treeLoop.pc = "loop" =>
            \/ treeLoop'.pc = "loop" /\ treeLoop'.i = treeLoop.i + 1
            \/ treeLoop'.pc = "done" /\ treeLoop'.i = treeLoop.i]_vars

\* C17 happens: the function returned after 300 attempts that were all
\* rejected, with no tree placed
AllCandidatesRejected ==
    /\ treeLoop.pc = "done"
    /\ treeLoop.i = 300
    /\ treeLoop.rejected = 300
    /\ treeLoop.treesPlaced = {}

----------------------------------------------------------------------------
(* The bird: properties of SpecBird *)

\* C20: after every Bird.update the bird's x and z lie in [-300, 300]: a
\* coordinate that moved beyond +300 is set to -300 and one that moved beyond
\* -300 is set to +300, any other is kept as moved; the bird's direction and
\* speed are unchanged by update, including on a wrap.
BirdWrapsAround ==
    birdTrace.updated =>
        LET wrapped(raw, c) ==
                /\ c \in (-300 * PosScale)..(300 * PosScale)
                /\ raw > 300 * PosScale => c = -300 * PosScale
                /\ raw < -300 * PosScale => c = 300 * PosScale
                /\ raw \in (-300 * PosScale)..(300 * PosScale) => c = raw
        IN  /\ wrapped(birdTrace.rawX, bird.x)
            /\ wrapped(birdTrace.rawZ, bird.z)
            /\ bird.direction = birdTrace.oldDirection
            /\ bird.speed = birdTrace.oldSpeed

\* C20 happens: an update carried the bird over the east edge and another
\* coordinate stayed inside
BirdTeleported ==
    /\ birdTrace.updated
    /\ birdTrace.rawX > 300 * PosScale
    /\ bird.x = -300 * PosScale
    /\ bird.speed = birdTrace.oldSpeed

----------------------------------------------------------------------------
(* The city: properties of SpecCity *)

\* C14: after initWorld, for every random draw of the building widths and
\* depths (each in [12, 14)), no two rectangles of the collider registry
\* overlap: the generated grid buildings, the seven skyscrapers and the school
\* collider at (0, -40).
NoCollidersOverlap ==
    LET colliders == buildingColliders
    IN  \A i \in 1..Len(colliders) : \A j \in 1..Len(colliders) :
            i < j =>
                \/ 2 * Abs(colliders[i].x - colliders[j].x)
                       >= colliders[i].width + colliders[j].width
                \/ 2 * Abs(colliders[i].z - colliders[j].z)
                       >= colliders[i].depth + colliders[j].depth

\* C14 happens: the city was built with the largest sampled widths and depths
BuiltWithLargestDraw ==
    /\ sizeDraw = <<2 * PosScale - 1, 2 * PosScale - 1>>
    /\ LET colliders == buildingColliders
       IN  /\ Len(colliders) = 48
           /\ \E i \in 1..Len(colliders) : colliders[i].width = 1399

\* C15: after initWorld, for every random draw, no registered collider overlaps
\* the road-proximity buffer: no point of any collider rectangle (here its
\* centre, corners and edge midpoints) is rejected by isTooCloseToRoad.
NoColliderNearRoad ==
    LET colliders == buildingColliders
    IN  \A i \in 1..Len(colliders) :
        LET b == colliders[i]
        IN  \A sx \in {-1, 0, 1} : \A sz \in {-1, 0, 1} :
                ~isTooCloseToRoad(b.x + Quot(sx * b.width, 2),
                                  b.z + Quot(sz * b.depth, 2))

\* C16: each grid coordinate of {-120, ..., 120} x {-120, ..., 120} holds at
\* most one building: a building is generated at a cell exactly when the cell
\* is neither a reserved landmark cell ((0,-40), (40,-40)) nor a skyscraper
\* cell, every skyscraper sits on a distinct grid cell, and no two entries of
\* mediumBuildings and skyscrapers share the same (x, z).
OneBuildingPerCell ==
    sizeDraw # <<>> =>
        LET grid   == {-120, -80, -40, 0, 40, 80, 120}
            medium == mediumBuildings(sizeDraw[1], sizeDraw[2])
            at(k)  == IF k <= Len(medium)
                      THEN <<medium[k].x, medium[k].z>>
                      ELSE <<skyscrapers[k - Len(medium)][1] * PosScale,
                             skyscrapers[k - Len(medium)][2] * PosScale>>
            count  == Len(medium) + Len(skyscrapers)
            tall(x, z) == \E k \in 1..Len(skyscrapers) : skyscrapers[k] = <<x, z>>
        IN  /\ \A x \in grid : \A z \in grid :
                  (\E k \in 1..Len(medium) :
                      medium[k].x = x * PosScale /\ medium[k].z = z * PosScale)
                  <=> (<<x, z>> \notin {<<0, -40>>, <<40, -40>>} /\ ~tall(x, z))
            /\ \A k \in 1..Len(medium) :
                  \E x \in grid : \E z \in grid : at(k) = <<x * PosScale, z * PosScale>>
            /\ \A k \in 1..Len(skyscrapers) :
                  skyscrapers[k][1] \in grid /\ skyscrapers[k][2] \in grid
            /\ \A j \in 1..count : \A k \in 1..count : j < k => at(j) # at(k)

\* C16 happens: the city was built, with 40 generated buildings next to the 7
\* skyscrapers
GridFilled ==
    /\ sizeDraw # <<>>
    /\ Len(mediumBuildings(sizeDraw[1], sizeDraw[2])) = 40
    /\ Len(skyscrapers) = 7


----------------------------------------------------------------------------
(* Properties of the start-up (SpecBoot)                                         *)

\* C25: a per-frame update called while its handle is still undefined returns
\* at its guard and raises nothing: updateMovement leaves velocity and position
\* alone while controls is undefined, and updateDayNight leaves the phase (with
\* auto-advance on too), the sky and the lamps alone while hemiLight or
\* sunLight is undefined.
UpdateWithoutHandleIsNoOp ==
    [][ticks' # ticks =>
          /\ ~frameExit'.threw
          /\ (frameExit'.op = "updateMovement" /\ ~handles.controls) =>
                 (frameExit'.early /\ UNCHANGED <<velocity, position>>)
          /\ (frameExit'.op = "updateDayNight" /\ ~LightsReady(handles)) =>
                 (frameExit'.early /\ UNCHANGED <<timeOfDay, sky>>)]_vars

\* both updates have returned at their guard, the day/night one with auto-advance on
ReturnedAtBothGuards ==
    /\ frameExit.returned = {"updateMovement", "updateDayNight"}
    /\ frameExit.op = "updateDayNight" /\ frameExit.early
    /\ dayNightAuto
    /\ ~LightsReady(handles)


----------------------------------------------------------------------------
(* Properties of popups and quizzes (SpecQuiz)                                   *)

AllCorrect(id, userAnswers) ==
    \A i \in 1..Len(quizData[id]) : userAnswers[i] = quizData[id][i]

QuizSubmitted == lockTrace' # lockTrace /\ lockTrace'.op = "finishQuiz"

\* C28: every sign starts unmastered; a quiz submission for a sign marks it
\* mastered exactly when every question was answered correctly (an unanswered
\* one counts as wrong) and touches no other sign; a mastered sign stays
\* mastered through every later step.
MasteryIsMonotonic ==
    /\ [](lockTrace.op = "init" => \A id \in SignIds : ~signStates[id])
    /\ [][/\ \A id \in SignIds : signStates[id] => signStates'[id]
          /\ QuizSubmitted =>
               \A id \in SignIds :
                   signStates'[id] =
                       \/ signStates[id]
                       \/ /\ id = quizArea'.id
                          /\ AllCorrect(id, quizArea'.answers)
          /\ ~QuizSubmitted => signStates' = signStates]_vars

\* a mastered sign has just been submitted again with a question unanswered or wrong
MasteredSignFailedAgain ==
    /\ quizArea.view = "results"
    /\ ~AllCorrect(quizArea.id, quizArea.answers)
    /\ signStates[quizArea.id]

\* C29: a mastered sign holds the maximum score, two points for each of its
\* questions, so that when the mission box reports all signs learned the HUD
\* total is twice the number of questions.
MasteredHasMaxScore ==
    /\ \A id \in SignIds :
           signStates[id] =>
               /\ id \in DOMAIN signScores
               /\ signScores[id] = 2 * Len(quizData[id])
    /\ hud.allLearned => hud.total = 2 * getTotalQuizQuestions

PointerStep(ops) == lockTrace' # lockTrace /\ lockTrace'.op \in ops

====
